---- MODULE Spec2Model ----
(***************************************************************************)
(* lint-lab: conversion of cargo/clippy diagnostics and rustfmt mismatch   *)
(* batches into GitLab code-quality report entries.                        *)
(*                                                                         *)
(* Strings that the program hashes or composes (paths, messages, source    *)
(* text, descriptions, fingerprints) are sequences of byte values; names   *)
(* that are only copied (check_name, severity, level) are TLA+ strings.    *)
(* A u64 is a sequence of four 16-bit limbs, least significant first.      *)
(***************************************************************************)
EXTENDS Integers, Sequences, FiniteSets, TLC

VARIABLES
    cmd,      \* the subcommand of the run: "lints" | "rustfmt" | "none"
    input,    \* the message stream of the run, one element per line
    pos,      \* number of lines the run's iterator has consumed
    result,   \* the Vec<CodeQualityReportEntry> being collected
    pc,       \* "collect" | "done" | "panicked" | "io_error" | "idle"
    output,   \* Some(entries) once the report is written, None before
    op,       \* the conversion last applied on its own: "none" | "New" | ...
    arg,      \* its argument
    ret,      \* its return value
    prev      \* Some(entry) built by the preceding call of new, or None

vars == <<cmd, input, pos, result, pc, output, op, arg, ret, prev>>
runVars == <<cmd, input, pos, result, pc, output>>
convVars == <<op, arg, ret, prev>>

----------------------------------------------------------------------------
(* 64-bit arithmetic of the hasher *)

RECURSIVE XorBits(_, _, _)
XorBits(a, b, n) ==
    IF n = 0 THEN 0
    ELSE (((a % 2) + (b % 2)) % 2) + 2 * XorBits(a \div 2, b \div 2, n - 1)

Xor4 == [a \in 0..15 |-> [b \in 0..15 |-> XorBits(a, b, 4)]]

Xor16(a, b) ==
      Xor4[a % 16][b % 16]
    + 16 * Xor4[(a \div 16) % 16][(b \div 16) % 16]
    + 256 * Xor4[(a \div 256) % 16][(b \div 256) % 16]
    + 4096 * Xor4[a \div 4096][b \div 4096]

Xor64(a, b) == <<Xor16(a[1], b[1]), Xor16(a[2], b[2]),
                 Xor16(a[3], b[3]), Xor16(a[4], b[4])>>

\* wrapping_add
Add64(a, b) ==
    LET s1 == a[1] + b[1]
        s2 == a[2] + b[2] + (s1 \div 65536)
        s3 == a[3] + b[3] + (s2 \div 65536)
        s4 == a[4] + b[4] + (s3 \div 65536)
    IN <<s1 % 65536, s2 % 65536, s3 % 65536, s4 % 65536>>

\* rotate_left
Rotl64(a, n) ==
    LET q == n \div 16
        r == n % 16
        up == 2 ^ r
        down == 2 ^ (16 - r)
        l1 == a[((4 - q) % 4) + 1]
        l2 == a[((5 - q) % 4) + 1]
        l3 == a[((6 - q) % 4) + 1]
        l4 == a[((7 - q) % 4) + 1]
    IN <<((l1 * up) % 65536) + (l4 \div down),
         ((l2 * up) % 65536) + (l1 \div down),
         ((l3 * up) % 65536) + (l2 \div down),
         ((l4 * up) % 65536) + (l3 \div down)>>

\* u64::from_le_bytes of up to eight bytes, missing high bytes zero
ByteAt(bytes, i) == IF i <= Len(bytes) THEN bytes[i] ELSE 0

U8ToU64Le(bytes) ==
    <<ByteAt(bytes, 1) + 256 * ByteAt(bytes, 2),
      ByteAt(bytes, 3) + 256 * ByteAt(bytes, 4),
      ByteAt(bytes, 5) + 256 * ByteAt(bytes, 6),
      ByteAt(bytes, 7) + 256 * ByteAt(bytes, 8)>>

----------------------------------------------------------------------------
(* std::hash::SipHasher: SipHash 2-4 with the key (0, 0) *)

\* Sequencing of the steps on the state v0..v3: F applied to the state
\* v. (Testing v first makes TLC evaluate the state before the step instead
\* of in the middle of it, which keeps TLC's evaluation stack shallow.)
Then(v, F(_)) == IF Len(v) = 4 THEN F(v) ELSE v

\* compress!, first half:  v0 += v1; v2 += v3
AddPairs(v) == <<Add64(v[1], v[2]), v[2], Add64(v[3], v[4]), v[4]>>

\*   v1 <<<= 13; v1 ^= v0; v3 <<<= 16; v3 ^= v2; v0 <<<= 32
MixLow(v) == <<Rotl64(v[1], 32), Xor64(Rotl64(v[2], 13), v[1]),
               v[3], Xor64(Rotl64(v[4], 16), v[3])>>

\* second half:  v2 += v1; v0 += v3
AddCross(v) == <<Add64(v[1], v[4]), v[2], Add64(v[3], v[2]), v[4]>>

\*   v1 <<<= 17; v1 ^= v2; v3 <<<= 21; v3 ^= v0; v2 <<<= 32
MixHigh(v) == <<v[1], Xor64(Rotl64(v[2], 17), v[3]),
                Rotl64(v[3], 32), Xor64(Rotl64(v[4], 21), v[1])>>

\* one round of compress!
SipRound(v) == Then(Then(Then(Then(v, AddPairs), MixLow), AddCross), MixHigh)

XorV0(v, m) == <<Xor64(v[1], m), v[2], v[3], v[4]>>
XorV2(v, m) == <<v[1], v[2], Xor64(v[3], m), v[4]>>
XorV3(v, m) == <<v[1], v[2], v[3], Xor64(v[4], m)>>

\* one message word: v3 ^= m; c_rounds; v0 ^= m
Compress(v, m) ==
    LET XorM(w) == XorV0(w, m)
    IN Then(Then(Then(XorV3(v, m), SipRound), SipRound), XorM)

\* SipHasher::new(): "somepseudorandomlygeneratedbytes" xor the zero key
SipHasherNew ==
    [v      |-> << <<25973, 28787, 28005, 29551>>, <<28525, 28260, 29281, 25711>>,
                   <<29281, 28261, 26469, 27769>>, <<25971, 31092, 25698, 29797>> >>,
     tail   |-> <<>>,
     length |-> 0]

\* Hasher::write: fill the buffered tail; compress each full eight bytes;
\* keep what is left as the new tail
RECURSIVE HasherWrite(_, _)
HasherWrite(h, bytes) ==
    IF Len(h.tail) + Len(bytes) < 8
    THEN [v |-> h.v, tail |-> h.tail \o bytes, length |-> h.length + Len(bytes)]
    ELSE LET needed == 8 - Len(h.tail)
             m == U8ToU64Le(h.tail \o SubSeq(bytes, 1, needed))
         IN HasherWrite([v |-> Compress(h.v, m), tail |-> <<>>,
                         length |-> h.length + needed],
                        SubSeq(bytes, needed + 1, Len(bytes)))

\* Hasher::write_u8
HasherWriteU8(h, b) == HasherWrite(h, <<b>>)

\* b = length << 56 | tail
LastWord(h) ==
    <<ByteAt(h.tail, 1) + 256 * ByteAt(h.tail, 2),
      ByteAt(h.tail, 3) + 256 * ByteAt(h.tail, 4),
      ByteAt(h.tail, 5) + 256 * ByteAt(h.tail, 6),
      ByteAt(h.tail, 7) + 256 * (h.length % 256)>>

\* v0 ^ v1 ^ v2 ^ v3
XorAll(v) == Xor64(Xor64(v[1], v[2]), Xor64(v[3], v[4]))

\* Hasher::finish: v3 ^= b; c_rounds; v0 ^= b; v2 ^= 0xff; d_rounds.
\* (write leaves fewer than eight bytes buffered)
HasherFinish(h) ==
    LET XorFF(w) == XorV2(w, <<255, 0, 0, 0>>)
    IN IF Len(h.tail) >= 8 THEN <<>>
       ELSE Then(Then(Then(Then(Then(Then(Compress(h.v, LastWord(h)),
                XorFF), SipRound), SipRound), SipRound), SipRound), XorAll)

HexDigit(d) == IF d < 10 THEN 48 + d ELSE 87 + d

\* the sixteen hexadecimal digits of a u64, most significant first
Nibbles(w) ==
    [k \in 1..16 |->
        (w[4 - ((k - 1) \div 4)] \div (16 ^ (3 - ((k - 1) % 4)))) % 16]

RECURSIVE StripZeros(_)
StripZeros(ds) ==
    IF Len(ds) > 1 /\ Head(ds) = 0 THEN StripZeros(Tail(ds)) ELSE ds

\* format!("{:x}", u64): lowercase hexadecimal, no leading zeros
FormatHex(w) ==
    IF w = <<0, 0, 0, 0>> THEN <<48>>
    ELSE LET ds == StripZeros(Nibbles(w))
         IN [k \in 1..Len(ds) |-> HexDigit(ds[k])]

\* the fingerprint block of CodeQualityReportEntry::new
Fingerprint(filename, description) ==
    FormatHex(HasherFinish(
        HasherWrite(HasherWriteU8(HasherWrite(SipHasherNew, filename), 255),
                    description)))

\* A faulty variant of New: the line number is hashed after the file name.
NewHashesLine(check_name, severity, description, filename, line_number) ==
    [description |-> description,
     check_name  |-> check_name,
     fingerprint |-> Fingerprint(Append(filename, line_number), description),
     severity    |-> severity,
     location    |-> [path |-> filename, lines |-> [begin |-> line_number]]]

\* CodeQualityReportEntry::new
New(check_name, severity, description, filename, line_number) ==
    [description |-> description,
     check_name  |-> check_name,
     fingerprint |-> Fingerprint(filename, description),
     severity    |-> severity,
     location    |-> [path |-> filename, lines |-> [begin |-> line_number]]]

----------------------------------------------------------------------------
(* Result and Option values *)

Ok(v) == [tag |-> "Ok", val |-> v]
Err == [tag |-> "Err"]
Panic == [tag |-> "Panic"]
Some(v) == [tag |-> "Some", val |-> v]
None == [tag |-> "None"]

RECURSIVE Concat(_)
Concat(ss) == IF ss = <<>> THEN <<>> ELSE Head(ss) \o Concat(Tail(ss))

----------------------------------------------------------------------------
(* mod gitlab: the diagnostic normalizer *)

\* A faulty variant of TryFromDiagnosticLevel: an internal compiler error is
\* reported as a blocker instead of being rejected.
TryFromDiagnosticLevelIceReported(value) ==
    CASE value \in {"note", "help"} -> Ok("info")
      [] value = "error" -> Ok("major")
      [] value = "warning" -> Ok("minor")
      [] value = "internal-compiler-error" -> Ok("blocker")
      [] OTHER -> Err

\* impl TryFrom<DiagnosticLevel> for Severity
TryFromDiagnosticLevel(value) ==
    CASE value \in {"note", "help"} -> Ok("info")
      [] value = "error" -> Ok("major")
      [] value = "warning" -> Ok("minor")
      [] value \in {"internal-compiler-error", "failure-note"} -> Err
      [] OTHER -> Err

\* char::is_whitespace on the ASCII range
IsWhitespace(c) == c \in {9, 10, 11, 12, 13, 32}

RECURSIVE TrimStart(_)
TrimStart(s) ==
    IF s # <<>> /\ IsWhitespace(Head(s)) THEN TrimStart(Tail(s)) ELSE s

RECURSIVE TrimEnd(_)
TrimEnd(s) ==
    IF s # <<>> /\ IsWhitespace(s[Len(s)])
    THEN TrimEnd(SubSeq(s, 1, Len(s) - 1))
    ELSE s

\* str::trim
Trim(s) == TrimEnd(TrimStart(s))

\* span.text.iter().map(|line| line.text.trim()).collect::<String>()
SpanText(span) == Concat([i \in 1..Len(span.text) |-> Trim(span.text[i].text)])

\* ". " of format!("{description}. {span_text}")
SepDescription == <<46, 32>>

\* A faulty variant of TryFromCompilerMessage: a diagnostic without spans gets
\* a default location instead of being rejected.
TryFromCompilerMessageDefaultSpan(value) ==
    LET diagnostic == value.message
        span == IF diagnostic.spans = <<>>
                THEN [file_name |-> <<>>, line_start |-> 0, text |-> <<>>]
                ELSE diagnostic.spans[1]
        check_name == IF diagnostic.code.tag = "Some"
                      THEN diagnostic.code.val.code
                      ELSE "unknown"
        severity == TryFromDiagnosticLevel(diagnostic.level)
    IN IF severity.tag = "Err" THEN Err
       ELSE Ok(New(check_name, severity.val,
                   diagnostic.message \o SepDescription \o SpanText(span),
                   span.file_name, span.line_start))

\* A faulty variant of TryFromCompilerMessage: the last span is used.
TryFromCompilerMessageLastSpan(value) ==
    LET diagnostic == value.message
    IN IF diagnostic.spans = <<>> THEN Err
       ELSE LET span == diagnostic.spans[Len(diagnostic.spans)]
                check_name == IF diagnostic.code.tag = "Some"
                              THEN diagnostic.code.val.code
                              ELSE "unknown"
                severity == TryFromDiagnosticLevel(diagnostic.level)
            IN IF severity.tag = "Err" THEN Err
               ELSE Ok(New(check_name, severity.val,
                           diagnostic.message \o SepDescription \o SpanText(span),
                           span.file_name, span.line_start))

\* impl TryFrom<CompilerMessage> for CodeQualityReportEntry
TryFromCompilerMessage(value) ==
    LET diagnostic == value.message
        description == diagnostic.message
    IN IF diagnostic.spans = <<>> THEN Err
       ELSE LET span == diagnostic.spans[1]
                path == span.file_name
                begin == span.line_start
                span_text == SpanText(span)
                check_name == IF diagnostic.code.tag = "Some"
                              THEN diagnostic.code.val.code
                              ELSE "unknown"
                severity == TryFromDiagnosticLevel(diagnostic.level)
            IN IF severity.tag = "Err" THEN Err
               ELSE Ok(New(check_name, severity.val,
                           description \o SepDescription \o span_text,
                           path, begin))

----------------------------------------------------------------------------
(* mod rustfmt of main.rs: the formatter-mismatch normalizer, with texts *)

\* the digits of format!("{}", n) for a usize
RECURSIVE FormatDecimal(_)
FormatDecimal(n) ==
    IF n < 10 THEN <<48 + n>>
    ELSE Append(FormatDecimal(n \div 10), 48 + (n % 10))

\* the loop of diff: the first index at which the zipped chars differ
RECURSIVE ByteIdx(_, _, _)
ByteIdx(original, expected, i) ==
    IF i >= Len(original) \/ i >= Len(expected) THEN None
    ELSE IF original[i + 1] # expected[i + 1] THEN Some(i)
    ELSE ByteIdx(original, expected, i + 1)

\* the format string of diff: "Difference at byte: ", ".\noriginal: ",
\* ". expected: "
DiffHead == <<68, 105, 102, 102, 101, 114, 101, 110, 99, 101, 32,
              97, 116, 32, 98, 121, 116, 101, 58, 32>>
DiffOriginal == <<46, 10, 111, 114, 105, 103, 105, 110, 97, 108, 58, 32>>
DiffExpected == <<46, 32, 101, 120, 112, 101, 99, 116, 101, 100, 58, 32>>

\* A faulty variant of Diff: byte_idx.unwrap_or(0) instead of unwrap().
DiffUnwrapOrZero(original, expected) ==
    LET byte_idx == ByteIdx(original, expected, 0)
    IN Ok(DiffHead \o FormatDecimal(IF byte_idx.tag = "None" THEN 0 ELSE byte_idx.val)
          \o DiffOriginal \o original \o DiffExpected \o expected)

\* fn diff: panics in byte_idx.unwrap() when the loop found no difference
Diff(original, expected) ==
    LET byte_idx == ByteIdx(original, expected, 0)
    IN IF byte_idx.tag = "None" THEN Panic
       ELSE Ok(DiffHead \o FormatDecimal(byte_idx.val)
               \o DiffOriginal \o original \o DiffExpected \o expected)

\* the closure of .map(..) applied to the mismatches from index i on
RECURSIVE MapMismatches(_, _)
MapMismatches(value, i) ==
    IF i > Len(value.mismatches) THEN Ok(<<>>)
    ELSE LET e == value.mismatches[i]
             description == Diff(e.original, e.expected)
         IN IF description.tag = "Panic" THEN Panic
            ELSE LET rest == MapMismatches(value, i + 1)
                 IN IF rest.tag = "Panic" THEN Panic
                    ELSE Ok(<<New("rustfmt", "minor", description.val,
                                  value.name, e.original_begin_line)>>
                            \o rest.val)

\* impl From<RustfmtJsonEntry<'_>> for Vec<CodeQualityReportEntry>
FromRustfmtJsonEntry(value) == MapMismatches(value, 1)

----------------------------------------------------------------------------
(* rustfmt.rs: the formatter-mismatch normalizer, without texts *)

\* A faulty variant of TryFromRustfmtJsonEntry: the last mismatch is used.
TryFromRustfmtJsonEntryLast(value) ==
    IF value.mismatches = <<>> THEN Err
    ELSE Ok(New("rustfmt", "minor", <<>>, value.name,
                value.mismatches[Len(value.mismatches)].original_begin_line))

\* impl TryFrom<RustfmtJsonEntry<'_>> for CodeQualityReportEntry
TryFromRustfmtJsonEntry(value) ==
    IF value.mismatches = <<>> THEN Err
    ELSE Ok(New("rustfmt", "minor", <<>>, value.name,
                value.mismatches[1].original_begin_line))

----------------------------------------------------------------------------
(* The inputs the conversions are applied to *)

MaxSpans == 2
MaxMismatches == 2

SeqsUpTo(S, n) == UNION {[1..k -> S] : k \in 0..n}

PathP == <<112>>                                          \* "p"
PathLib == <<115, 114, 99, 47, 108, 105, 98, 46, 114, 115>>  \* "src/lib.rs"
MsgM == <<109>>                                           \* "m"
TxtPadded == <<32, 97, 32, 98, 32>>                       \* " a b "
TxtTrail == <<97, 32>>                                    \* "a "
TxtLead == <<9, 98>>                                      \* "\tb"
TxtFoo == <<102, 110, 32, 102, 111, 111, 40, 41, 123, 125>>         \* "fn foo(){}"
TxtFooFmt == <<102, 110, 32, 102, 111, 111, 40, 41, 32, 123, 125>>  \* "fn foo() {}"
TxtLongB == <<97, 97, 97, 97, 97, 97, 97, 97, 97, 97, 98>>  \* "aaaaaaaaaab"
TxtLongA == <<97, 97, 97, 97, 97, 97, 97, 97, 97, 97, 97>>  \* "aaaaaaaaaaa"
TxtA == <<97>>                                            \* "a"
TxtB == <<98>>                                            \* "b"
TxtAB == <<97, 98>>                                       \* "ab"
TxtMAB == <<109, 46, 32, 97, 98>>                         \* "m. ab"

Paths == {PathP, PathLib}
LineNumbers == {1, 10}
Severities == {"info", "minor", "major", "critical", "blocker"}
Levels == {"internal-compiler-error", "error", "warning", "failure-note",
           "note", "help", "unknown"}
Codes == {None, Some([code |-> "clippy::pedantic"])}
SpanTexts == {<<>>,
              <<[text |-> TxtPadded]>>,
              <<[text |-> TxtTrail], [text |-> TxtLead]>>}
Spans == [file_name : Paths, line_start : LineNumbers, text : SpanTexts]
Diagnostics == [level : Levels, message : {MsgM}, code : Codes,
                spans : SeqsUpTo(Spans, MaxSpans)]

\* (original, expected): three pairs that differ at a common index (8, 0, 10),
\* two identical pairs, and two where one text is a proper prefix of the other
TextPairs == { <<TxtFoo, TxtFooFmt>>, <<TxtB, TxtA>>, <<TxtLongB, TxtLongA>>,
               <<TxtA, TxtA>>, << <<>>, <<>> >>,
               <<TxtA, TxtAB>>, <<TxtAB, TxtA>> }
Mismatches == {[original_begin_line |-> l, original |-> t[1], expected |-> t[2]] :
                  l \in LineNumbers, t \in TextPairs}
RustfmtJsonEntries ==
    [name : Paths, mismatches : SeqsUpTo(Mismatches, MaxMismatches)]

\* rustfmt.rs: a Mismatch carries the line only
MinimalMismatches == [original_begin_line : LineNumbers]
MinimalEntries ==
    [name : Paths, mismatches : SeqsUpTo(MinimalMismatches, MaxMismatches)]

NewArgs == [check_name : {"rustfmt", "unknown"}, severity : Severities,
            description : {<<>>, TxtMAB}, filename : Paths,
            line_number : LineNumbers]

----------------------------------------------------------------------------
(* SpecConv: each conversion applied on its own to every input *)

InitConv ==
    /\ op = "none" /\ arg = None /\ ret = None /\ prev = None
    /\ cmd = "none" /\ input = <<>> /\ pos = 0 /\ result = <<>>
    /\ pc = "idle" /\ output = None

CallTryFromCompilerMessage ==
    /\ op = "none"
    /\ \E d \in Diagnostics :
          /\ arg' = d
          /\ ret' = TryFromCompilerMessage([message |-> d])
    /\ op' = "TryFromCompilerMessage"
    /\ UNCHANGED <<prev, runVars>>

CallFromRustfmtJsonEntry ==
    /\ op = "none"
    /\ \E b \in RustfmtJsonEntries :
          /\ arg' = b
          /\ ret' = FromRustfmtJsonEntry(b)
    /\ op' = "FromRustfmtJsonEntry"
    /\ UNCHANGED <<prev, runVars>>

CallTryFromRustfmtJsonEntry ==
    /\ op = "none"
    /\ \E b \in MinimalEntries :
          /\ arg' = b
          /\ ret' = TryFromRustfmtJsonEntry(b)
    /\ op' = "TryFromRustfmtJsonEntry"
    /\ UNCHANGED <<prev, runVars>>

\* CodeQualityReportEntry::new called once, and then once more
CallNew ==
    /\ op = "none" \/ (op = "New" /\ prev.tag = "None")
    /\ \E a \in NewArgs :
          /\ arg' = a
          /\ ret' = New(a.check_name, a.severity, a.description,
                        a.filename, a.line_number)
    /\ prev' = IF op = "New" THEN Some(ret) ELSE None
    /\ op' = "New"
    /\ UNCHANGED runVars

NextConv ==
    \/ CallTryFromCompilerMessage
    \/ CallFromRustfmtJsonEntry
    \/ CallTryFromRustfmtJsonEntry
    \/ CallNew

SpecConv == InitConv /\ [][NextConv]_vars

----------------------------------------------------------------------------
(* The runs: lint-lab lints and lint-lab rustfmt *)

\* A line of the stream, as Message::parse_stream yields it:
\*   Err                a line that could not be read (filter_map(Result::ok))
\*   CompilerMessage    a diagnostic
\*   TextLine           any line that is not a cargo message; its text is or
\*                      is not a well-formed JSON array of RustfmtJsonEntry
\*   Other              CompilerArtifact, BuildScriptExecuted, BuildFinished
ErrLine == [kind |-> "Err"]
OtherLine == [kind |-> "Other"]
CompilerMessage(d) == [kind |-> "CompilerMessage", message |-> d]
TextLine(wellformed, batches) ==
    [kind |-> "TextLine", text |-> [wellformed |-> wellformed, batches |-> batches]]

\* serde_json::from_str::<Vec<RustfmtJsonEntry>>(&text).unwrap_or_default()
FromStrOrDefault(text) == IF text.wellformed THEN text.batches ELSE <<>>

\* the closure of the second filter_map of gitlab_clippy
ClippyFilterMap(each) ==
    IF each.kind = "CompilerMessage"
    THEN LET r == TryFromCompilerMessage(each)
         IN IF r.tag = "Ok" THEN <<r.val>> ELSE <<>>
    ELSE <<>>

\* the closure of the first flat_map of rustfmt
RustfmtFlatMap(each) ==
    IF each.kind = "TextLine" THEN FromStrOrDefault(each.text) ELSE <<>>

\* .flat_map(Vec::<CodeQualityReportEntry>::from) over the batches from i on
RECURSIVE FlatMapFrom(_, _)
FlatMapFrom(batches, i) ==
    IF i > Len(batches) THEN Ok(<<>>)
    ELSE LET head == FromRustfmtJsonEntry(batches[i])
         IN IF head.tag = "Panic" THEN Panic
            ELSE LET rest == FlatMapFrom(batches, i + 1)
                 IN IF rest.tag = "Panic" THEN Panic
                    ELSE Ok(head.val \o rest.val)

MaxLines == 3

DiagWarning ==
    [level |-> "warning", message |-> MsgM,
     code |-> Some([code |-> "clippy::pedantic"]),
     spans |-> <<[file_name |-> PathP, line_start |-> 1,
                  text |-> <<[text |-> TxtPadded]>>]>>]
DiagNote ==
    [level |-> "note", message |-> MsgM, code |-> None,
     spans |-> <<[file_name |-> PathLib, line_start |-> 10,
                  text |-> <<[text |-> TxtTrail], [text |-> TxtLead]>>],
                 [file_name |-> PathP, line_start |-> 1, text |-> <<>>]>>]
DiagNoSpan ==
    [level |-> "error", message |-> MsgM, code |-> None, spans |-> <<>>]

BatchTwo ==
    [name |-> PathP,
     mismatches |-> <<[original_begin_line |-> 10, original |-> TxtB, expected |-> TxtA],
                      [original_begin_line |-> 1, original |-> TxtFoo,
                       expected |-> TxtFooFmt]>>]
BatchNone == [name |-> PathLib, mismatches |-> <<>>]
BatchPrefix ==
    [name |-> PathP,
     mismatches |-> <<[original_begin_line |-> 1, original |-> TxtA, expected |-> TxtAB]>>]

StreamLines ==
    { ErrLine, OtherLine,
      CompilerMessage(DiagWarning), CompilerMessage(DiagNote),
      CompilerMessage(DiagNoSpan),
      TextLine(TRUE, <<BatchTwo, BatchNone>>),
      TextLine(FALSE, <<BatchTwo>>),
      TextLine(TRUE, <<BatchPrefix>>) }

Init ==
    /\ cmd \in {"lints", "rustfmt"}
    /\ input \in SeqsUpTo(StreamLines, MaxLines)
    /\ pos = 0 /\ result = <<>> /\ pc = "collect" /\ output = None
    /\ op = "none" /\ arg = None /\ ret = None /\ prev = None

\* A faulty variant of GitlabClippyNext: a line that cannot be read ends the
\* collection (map_while instead of filter_map).
GitlabClippyNextStopAtErr ==
    /\ cmd = "lints" /\ pc = "collect" /\ pos < Len(input)
    /\ LET each == input[pos + 1]
       IN IF each.kind = "Err"
          THEN result' = result /\ pos' = Len(input)
          ELSE result' = result \o ClippyFilterMap(each) /\ pos' = pos + 1
    /\ UNCHANGED <<cmd, input, pc, output, convVars>>

\* gitlab_clippy: the iterator that collect() drives, one line at a time
GitlabClippyNext ==
    /\ cmd = "lints" /\ pc = "collect" /\ pos < Len(input)
    /\ LET each == input[pos + 1]
       IN result' = IF each.kind = "Err" THEN result
                    ELSE result \o ClippyFilterMap(each)
    /\ pos' = pos + 1
    /\ UNCHANGED <<cmd, input, pc, output, convVars>>

\* rustfmt::rustfmt: the same; From panics inside the iterator
RustfmtNext ==
    /\ cmd = "rustfmt" /\ pc = "collect" /\ pos < Len(input)
    /\ LET each == input[pos + 1]
           entries == IF each.kind = "Err" THEN Ok(<<>>)
                      ELSE FlatMapFrom(RustfmtFlatMap(each), 1)
       IN IF entries.tag = "Panic"
          THEN pc' = "panicked" /\ result' = <<>>
          ELSE pc' = pc /\ result' = result \o entries.val
    /\ pos' = pos + 1
    /\ UNCHANGED <<cmd, input, output, convVars>>

\* serde_json::to_writer_pretty(output, &result)?; Ok(())
WriteReport ==
    /\ pc = "collect" /\ pos = Len(input)
    /\ output' = Some(result)
    /\ pc' = "done"
    /\ UNCHANGED <<cmd, input, pos, result, convVars>>

\* to_writer_pretty returns an io error, which main unwraps
WriteReportFails ==
    /\ pc = "collect" /\ pos = Len(input)
    /\ pc' = "io_error"
    /\ UNCHANGED <<cmd, input, pos, result, output, convVars>>

Next ==
    \/ GitlabClippyNext
    \/ RustfmtNext
    \/ WriteReport
    \/ WriteReportFails

Spec == Init /\ [][Next]_vars

----------------------------------------------------------------------------
(* Properties of the conversions, checked under SpecConv *)

ReportedLevels == {"note", "help", "warning", "error"}

CalledTryFromCompilerMessage == op = "TryFromCompilerMessage"
CalledFromRustfmtJsonEntry == op = "FromRustfmtJsonEntry"

\* C1: a diagnostic with a span is reported as info when its level is note
\* or help, as minor when it is warning, as major when it is error, and
\* yields no entry when it is an internal compiler error, a failure note or
\* an unknown level.
C1_SeverityMapping ==
    (CalledTryFromCompilerMessage /\ arg.spans # <<>>) =>
        /\ arg.level \in {"note", "help"} =>
              (ret.tag = "Ok" /\ ret.val.severity = "info")
        /\ arg.level = "warning" =>
              (ret.tag = "Ok" /\ ret.val.severity = "minor")
        /\ arg.level = "error" =>
              (ret.tag = "Ok" /\ ret.val.severity = "major")
        /\ arg.level \in {"internal-compiler-error", "failure-note", "unknown"} =>
              ret = Err

C1_Witness ==
    /\ CalledTryFromCompilerMessage
    /\ arg.spans # <<>>
    /\ arg.level = "internal-compiler-error"
    /\ arg.code.tag = "Some"
    /\ ret = Err

\* C2: a diagnostic with no span yields no entry, whatever its level and
\* whether or not it carries a code.
C2_NoSpanNoEntry ==
    (CalledTryFromCompilerMessage /\ arg.spans = <<>>) => ret = Err

C2_Witness ==
    /\ CalledTryFromCompilerMessage
    /\ arg.spans = <<>>
    /\ arg.level = "warning"
    /\ arg.code.tag = "Some"
    /\ ret = Err

\* t is s without its leading and trailing whitespace
IsTrimOf(t, s) ==
    \E i \in 1..(Len(s) + 1), j \in 0..Len(s) :
        /\ t = SubSeq(s, i, j)
        /\ \A k \in 1..(i - 1) : IsWhitespace(s[k])
        /\ \A k \in (j + 1)..Len(s) : IsWhitespace(s[k])
        /\ t # <<>> => (~IsWhitespace(t[1]) /\ ~IsWhitespace(t[Len(t)]))

TrimOf(s) ==
    CHOOSE t \in {SubSeq(s, i, j) : i \in 1..(Len(s) + 1), j \in 0..Len(s)} :
        IsTrimOf(t, s)

JoinTrimmed(lines) == Concat([i \in 1..Len(lines) |-> TrimOf(lines[i].text)])

\* C3: the entry of a reported diagnostic has the file and the start line of
\* the first span, its description is the message, ". ", and the lines of
\* the first span, each trimmed, joined without a separator; it is the entry
\* of the same diagnostic with every later span removed.
C3_FirstSpanOnly ==
    (CalledTryFromCompilerMessage /\ arg.spans # <<>> /\ arg.level \in ReportedLevels) =>
        /\ ret.tag = "Ok"
        /\ ret.val.location.path = arg.spans[1].file_name
        /\ ret.val.location.lines.begin = arg.spans[1].line_start
        /\ ret.val.description =
              arg.message \o <<46, 32>> \o JoinTrimmed(arg.spans[1].text)
        /\ ret = TryFromCompilerMessage(
                     [message |-> [arg EXCEPT !.spans = <<arg.spans[1]>>]])

C3_Witness ==
    /\ CalledTryFromCompilerMessage
    /\ Len(arg.spans) = 2
    /\ arg.level = "error"
    /\ arg.spans[1] = [file_name |-> PathLib, line_start |-> 10,
                       text |-> <<[text |-> TxtTrail], [text |-> TxtLead]>>]
    /\ arg.spans[2] = [file_name |-> PathP, line_start |-> 1,
                       text |-> <<[text |-> TxtPadded]>>]
    /\ ret.tag = "Ok"
    /\ ret.val.description = TxtMAB
    /\ ret.val.location = [path |-> PathLib, lines |-> [begin |-> 10]]

\* format!("{:x}") of the SipHash-2-4 of "src/lib.rs", 0xff under the zero
\* key: 56cd61d009e6f775
HashOfPathLib == <<53, 54, 99, 100, 54, 49, 100, 48, 48, 57, 101, 54, 102, 55, 55, 53>>

\* C4: two entries built with the same file path and the same description
\* have the same fingerprint, whatever their check names, severities and
\* line numbers.
C4_FingerprintOfPathAndDescription ==
    (/\ op = "New"
     /\ prev.tag = "Some"
     /\ prev.val.location.path = ret.location.path
     /\ prev.val.description = ret.description)
        => prev.val.fingerprint = ret.fingerprint

C4_Witness ==
    /\ op = "New"
    /\ prev.tag = "Some"
    /\ prev.val.location.path = PathLib /\ ret.location.path = PathLib
    /\ prev.val.description = <<>> /\ ret.description = <<>>
    /\ prev.val.location.lines.begin # ret.location.lines.begin
    /\ prev.val.check_name # ret.check_name
    /\ prev.val.severity # ret.severity
    /\ ret.fingerprint = HashOfPathLib
    /\ prev.val.fingerprint = HashOfPathLib

NoIdenticalTexts(value) ==
    \A i \in 1..Len(value.mismatches) :
        value.mismatches[i].original # value.mismatches[i].expected

\* C5: a batch yields exactly one entry per mismatch, in order, each with
\* the batch's file, the mismatch's starting line, check name "rustfmt" and
\* severity minor.  Stated for the batches in which no mismatch has
\* identical texts; what is claimed for every batch is claimed for these.
C5_OneEntryPerMismatch ==
    (CalledFromRustfmtJsonEntry /\ NoIdenticalTexts(arg)) =>
        /\ ret.tag = "Ok"
        /\ Len(ret.val) = Len(arg.mismatches)
        /\ \A i \in 1..Len(arg.mismatches) :
              /\ ret.val[i].location.path = arg.name
              /\ ret.val[i].location.lines.begin =
                    arg.mismatches[i].original_begin_line
              /\ ret.val[i].check_name = "rustfmt"
              /\ ret.val[i].severity = "minor"

\* C6: a batch with a mismatch whose original and expected texts are
\* identical yields no entry at all: the conversion fails.
C6_IdenticalTextsFail ==
    (CalledFromRustfmtJsonEntry /\ ~NoIdenticalTexts(arg)) => ret = Panic

C6_Witness ==
    /\ CalledFromRustfmtJsonEntry
    /\ Len(arg.mismatches) = 2
    /\ arg.mismatches[1].original = TxtFoo
    /\ arg.mismatches[1].expected = TxtFooFmt
    /\ arg.mismatches[2].original = TxtA
    /\ arg.mismatches[2].expected = TxtA
    /\ ret = Panic

\* the length of the longest common prefix of o and e: the first position,
\* counted from zero, at which two different texts differ
FirstDifference(o, e) ==
    CHOOSE n \in 0..(Len(o) + Len(e)) :
        /\ n <= Len(o) /\ n <= Len(e)
        /\ \A k \in 1..n : o[k] = e[k]
        /\ n = Len(o) \/ n = Len(e) \/ o[n + 1] # e[n + 1]

\* C9: the description of the entry of a mismatch with different texts is
\* "Difference at byte: <n>.\noriginal: <original>. expected: <expected>",
\* n being the first position at which the texts differ, also when one text
\* is a proper prefix of the other.
C9_DifferenceAtByte ==
    (CalledFromRustfmtJsonEntry /\ NoIdenticalTexts(arg)) =>
        /\ ret.tag = "Ok"
        /\ \A i \in 1..Len(arg.mismatches) :
              LET e == arg.mismatches[i]
              IN ret.val[i].description =
                    DiffHead \o FormatDecimal(FirstDifference(e.original, e.expected))
                    \o DiffOriginal \o e.original \o DiffExpected \o e.expected

\* C10: the conversion without texts yields the entry of the first mismatch:
\* the batch's file, that mismatch's starting line, an empty description,
\* check name "rustfmt" and severity minor; it fails on an empty batch.
C10_FirstMismatchOnly ==
    (op = "TryFromRustfmtJsonEntry") =>
        IF arg.mismatches = <<>> THEN ret = Err
        ELSE /\ ret.tag = "Ok"
             /\ ret.val.location.path = arg.name
             /\ ret.val.location.lines.begin =
                   arg.mismatches[1].original_begin_line
             /\ ret.val.description = <<>>
             /\ ret.val.check_name = "rustfmt"
             /\ ret.val.severity = "minor"

C10_Witness ==
    /\ op = "TryFromRustfmtJsonEntry"
    /\ Len(arg.mismatches) = 2
    /\ arg.mismatches[1].original_begin_line = 10
    /\ arg.mismatches[2].original_begin_line = 1
    /\ ret.tag = "Ok"
    /\ ret.val.location.lines.begin = 10

----------------------------------------------------------------------------
(* Properties of the runs, checked under Spec *)

\* C7: a run is never aborted by a record of its input.
C7_NeverAborts == pc # "panicked"

\* the lines a run passes over without an entry: a line that cannot be read,
\* a message of another kind, a diagnostic that is rejected, a text line
\* that is not an array of batches
Skipped(c, line) ==
    \/ line.kind = "Err"
    \/ /\ c = "lints"
       /\ IF line.kind = "CompilerMessage"
          THEN line.message.spans = <<>> \/ line.message.level \notin ReportedLevels
          ELSE TRUE
    \/ /\ c = "rustfmt"
       /\ IF line.kind = "TextLine" THEN ~line.text.wellformed ELSE TRUE

\* the entries of a line that is not skipped, converted on its own
OwnEntries(c, line) ==
    IF c = "lints" THEN <<TryFromCompilerMessage(line).val>>
    ELSE FlatMapFrom(line.text.batches, 1).val

ExpectedEntries(c, lines) ==
    LET Kept(line) == ~Skipped(c, line)
        kept == SelectSeq(lines, Kept)
    IN Concat([i \in 1..Len(kept) |-> OwnEntries(c, kept[i])])

====
